---- MODULE Spec2Model ----
(***************************************************************************)
(* Out-of-order core of MultiCoreSim: CpuCoreGenerator (trace driver), ROB *)
(* and LSQ, with the CpuFIFO towards the cache.  The model follows         *)
(* src/src/MultiCoreSim/model/src/{CpuCoreGenerator,ROB,LSQ}.cc.           *)
(*                                                                         *)
(* One call of CpuCoreGenerator::Step is one cycle.  Its body is a fixed   *)
(* sequence of calls; `pc` is the position inside that sequence, so that   *)
(* the state between two calls of one cycle can be inspected.  The cache   *)
(* side (everything behind the CpuFIFO) acts between two cycles only: the  *)
(* simulator is single threaded and event driven.                          *)
(*                                                                         *)
(* The benchmark trace is read line by line; the line that std::getline    *)
(* returns is an input chosen when it is read.  The file ends with a       *)
(* newline, so the end of file shows as a failed getline.                  *)
(***************************************************************************)
EXTENDS Integers, Sequences, FiniteSets, TLC

\* Capacities and configuration, scaled down so that full queues, an
\* exhausted request budget and a full TX FIFO are all reached.
ROB_MAX_ENTRIES == 4
LSQ_MAX_ENTRIES == 3
IPC == 2
NumOoO == 5
FifoDepth == 1
\* Inputs: number of trace lines, compute count per line, addresses.
MaxLines == 3
MaxCompute == 2
NumAddrs == 2

\* The cycle limit of ROB::step.
CycleLimit == 60

Addrs == 1..NumAddrs

\* A parsed trace line: `ok` is the result of the stream extraction
\* (iss >> compute_count >> addr >> type); type "X" is any string but R, W.
TraceLines ==
    [ok : {TRUE}, n : 0..MaxCompute, addr : Addrs, type : {"R", "W", "X"}]
    \cup {[ok |-> FALSE, n |-> 0, addr |-> 1, type |-> "X"]}

\* Longer traces of fewer kinds of line: well-formed groups only, with no
\* compute instruction or with MaxCompute of them.
MaxLongLines == 4
LongLines == {l \in TraceLines : /\ l.ok /\ l.type \in {"R", "W"}
                                 /\ l.n \in {0, MaxCompute}}

\* The ROB on its own: the number of requests its caller makes.
MaxRobRequests == 5

\* What a failed std::getline stands for.
EndOfFile == [ok |-> FALSE, n |-> 0, addr |-> 0, type |-> "EOF"]

NoReq == [msgId |-> -1, type |-> "NONE", addr |-> 0]

VARIABLES
    pc,                  \* position inside CpuCoreGenerator::Step
    m_rob_q,             \* ROB::m_rob_q
    m_rob_num,           \* ROB::m_num_entries
    m_rob_cycle,         \* ROB::m_current_cycle
    m_lsq_q,             \* LSQ::m_lsq_q
    m_lsq_num,           \* LSQ::m_num_entries
    m_txFIFO,            \* CpuFIFO::m_txFIFO
    m_rxFIFO,            \* CpuFIFO::m_rxFIFO (msgIds of the responses)
    m_fifoDepth,         \* GenericFIFO::m_fifoDepth of the TX FIFO
    cachePending,        \* requests the cache took and has not answered
    linesRead,           \* trace lines consumed so far
    eof,                 \* m_bmTrace.eof()
    m_cpuCycle,
    m_remaining_compute,
    m_newSampleRdy,
    m_cpuReqDone,
    m_cpuCoreSimDone,
    m_sent_requests,
    m_cpuReqCnt,
    m_cpuRespCnt,
    m_cpuMemReq,
    \* history of the run, written and never read by the program
    dispatched,          \* msgIds allocated into the ROB, in order
    retired,             \* msgIds retired from the ROB, in order
    traceOk,             \* every line read so far was a well-formed group
    rolledBack,          \* the last ProcessTxBuf step ran removeLastEntry
    memOwed,             \* memory operations read from the trace (lines
                         \* "n addr R|W") and not allocated so far
    txLog,               \* requests inserted into the TX FIFO, in order
    txCycleStart,        \* Len(txLog) when the current cycle began
    cycleOps,            \* the calls Step has made so far in this cycle
    rxConsumed,          \* msgIds of the responses popped from the RX FIFO
    fwdCalls,            \* the calls of LSQ::ldFwd made by the last step
    allocLog             \* the last co-allocation of a memory operation

prog == <<pc, m_rob_q, m_rob_num, m_rob_cycle, m_lsq_q, m_lsq_num, m_txFIFO,
          m_rxFIFO, m_fifoDepth, cachePending, linesRead, eof, m_cpuCycle,
          m_remaining_compute, m_newSampleRdy, m_cpuReqDone, m_cpuCoreSimDone,
          m_sent_requests, m_cpuReqCnt, m_cpuRespCnt, m_cpuMemReq>>
hist == <<dispatched, retired, traceOk, memOwed, txLog, rxConsumed, fwdCalls,
          allocLog, rolledBack, txCycleStart, cycleOps>>
vars == <<prog, hist>>

-----------------------------------------------------------------------------
\* Helpers over the std::vector queues.

\* Index of the first entry with this msgId (the linear scans), 0 if none.
Find(q, id) ==
    IF \E i \in DOMAIN q : q[i].msgId = id
    THEN CHOOSE i \in DOMAIN q :
             q[i].msgId = id /\ \A j \in 1..(i - 1) : q[j].msgId # id
    ELSE 0

\* q without the entry at index i (vector::erase).
Erase(q, i) == [j \in 1..(Len(q) - 1) |-> IF j < i THEN q[j] ELSE q[j + 1]]

\* The entries of q whose index is in keep, in order.
RECURSIVE Keep(_, _, _)
Keep(q, keep, i) ==
    IF i > Len(q) THEN <<>>
    ELSE (IF i \in keep THEN <<q[i]>> ELSE <<>>) \o Keep(q, keep, i + 1)

-----------------------------------------------------------------------------
\* ROB

ROBcanAcceptLe(num) == num <= ROB_MAX_ENTRIES

ROBcanAccept(num) == num < ROB_MAX_ENTRIES

ROBEntryStoreReady(req) ==
    [msgId |-> req.msgId, type |-> req.type, addr |-> req.addr,
     ready |-> (req.type \in {"COMPUTE", "WRITE"})]

\* The entry ROB::allocate builds for a request.
ROBEntry(req) ==
    [msgId |-> req.msgId, type |-> req.type, addr |-> req.addr,
     ready |-> (req.type = "COMPUTE")]

ROBcommitOrHead(rob, requestId) ==
    LET i == Find(rob, requestId)
    IN  IF i = 0
        THEN (IF rob = <<>> THEN rob ELSE [rob EXCEPT ![1].ready = TRUE])
        ELSE [rob EXCEPT ![i].ready = TRUE]

ROBcommitToggle(rob, requestId) ==
    LET i == Find(rob, requestId)
    IN  IF i = 0 THEN rob ELSE [rob EXCEPT ![i].ready = ~rob[i].ready]

\* ROB::commit.
ROBcommit(rob, requestId) ==
    LET i == Find(rob, requestId)
    IN  IF i = 0 THEN rob ELSE [rob EXCEPT ![i].ready = TRUE]

ROBcommitNone(rob, ids) == rob

\* ROB::commit for each id of a set (the ids are committed one by one; the
\* order does not matter, each call touches the entry of its own id).
RECURSIVE ROBcommitAll(_, _)
ROBcommitAll(rob, ids) ==
    IF ids = {} THEN rob
    ELSE LET id == CHOOSE x \in ids : \A y \in ids : x <= y
         IN  ROBcommitAll(ROBcommit(rob, id), ids \ {id})

-----------------------------------------------------------------------------
\* LSQ

LSQcanAccept(num) == num < LSQ_MAX_ENTRIES

StoresToAnyType(lsq, address) ==
    {i \in DOMAIN lsq : lsq[i].addr = address}

\* The stores to an address (the test of the reverse scan of ldFwd).
StoresTo(lsq, address) ==
    {i \in DOMAIN lsq : lsq[i].type = "WRITE" /\ lsq[i].addr = address}

\* The store the reverse scan of ldFwd stops at: the last one in the queue.
FwdSource(lsq, address) ==
    CHOOSE i \in StoresTo(lsq, address) :
        \A j \in StoresTo(lsq, address) : j <= i

FwdMarkedFirst(lsq, address) ==
    {i \in DOMAIN lsq :
        /\ lsq[i].type = "READ" /\ lsq[i].addr = address /\ ~lsq[i].ready
        /\ \A j \in 1..(i - 1) :
               ~(/\ lsq[j].type = "READ" /\ lsq[j].addr = address
                 /\ ~lsq[j].ready)}

\* The loads ldFwd marks once it found a store: the inner loop runs over
\* the whole queue.
FwdMarked(lsq, address) ==
    {i \in DOMAIN lsq : /\ lsq[i].type = "READ"
                        /\ lsq[i].addr = address
                        /\ ~lsq[i].ready}

\* LSQ::ldFwd.  Result: the return value, the msgId of the store found,
\* the queues afterwards and the record of the call.
ldFwd(lsq, rob, address) ==
    IF StoresTo(lsq, address) = {}
    THEN [found |-> FALSE, src |-> -1, lsq |-> lsq, rob |-> rob,
          calls |-> {[pre |-> lsq, addr |-> address, post |-> lsq]}]
    ELSE LET marked == FwdMarked(lsq, address)
             lsq2 == [i \in DOMAIN lsq |->
                        IF i \in marked THEN [lsq[i] EXCEPT !.ready = TRUE]
                        ELSE lsq[i]]
             rob2 == ROBcommitAll(rob, {lsq[i].msgId : i \in marked})
         IN  [found |-> TRUE, src |-> lsq[FwdSource(lsq, address)].msgId,
              lsq |-> lsq2, rob |-> rob2,
              calls |-> {[pre |-> lsq, addr |-> address, post |-> lsq2]}]

LSQallocateStoreNoRob(lsq, rob, num, request) ==
    LET base == [msgId |-> request.msgId, type |-> request.type,
                 addr |-> request.addr, ready |-> FALSE,
                 waitingForCache |-> FALSE, cache_ack |-> FALSE]
    IN  IF ~LSQcanAccept(num)
        THEN [ok |-> FALSE, lsq |-> lsq, rob |-> rob, num |-> num,
              src |-> -1, calls |-> {}]
        ELSE IF request.type = "WRITE"
        THEN [ok |-> TRUE, lsq |-> Append(lsq, [base EXCEPT !.ready = TRUE]),
              rob |-> rob, num |-> num + 1, src |-> -1, calls |-> {}]
        ELSE LET f == ldFwd(lsq, rob, request.addr)
             IN  IF f.found
                 THEN [ok |-> TRUE,
                       lsq |-> Append(f.lsq, [base EXCEPT !.ready = TRUE]),
                       rob |-> ROBcommit(f.rob, request.msgId),
                       num |-> num + 1, src |-> f.src, calls |-> f.calls]
                 ELSE [ok |-> TRUE, lsq |-> Append(f.lsq, base),
                       rob |-> f.rob, num |-> num + 1,
                       src |-> -1, calls |-> f.calls]

\* LSQ::allocate.  `src` is the msgId of the store ldFwd found (-1: none).
LSQallocate(lsq, rob, num, request) ==
    LET base == [msgId |-> request.msgId, type |-> request.type,
                 addr |-> request.addr, ready |-> FALSE,
                 waitingForCache |-> FALSE, cache_ack |-> FALSE]
    IN  IF ~LSQcanAccept(num)
        THEN [ok |-> FALSE, lsq |-> lsq, rob |-> rob, num |-> num,
              src |-> -1, calls |-> {}]
        ELSE IF request.type = "WRITE"
        THEN [ok |-> TRUE, lsq |-> Append(lsq, [base EXCEPT !.ready = TRUE]),
              rob |-> ROBcommit(rob, request.msgId), num |-> num + 1,
              src |-> -1, calls |-> {}]
        ELSE IF request.type = "READ"
        THEN LET f == ldFwd(lsq, rob, request.addr)
             IN  IF f.found
                 THEN [ok |-> TRUE,
                       lsq |-> Append(f.lsq, [base EXCEPT !.ready = TRUE]),
                       rob |-> ROBcommit(f.rob, request.msgId),
                       num |-> num + 1, src |-> f.src, calls |-> f.calls]
                 ELSE [ok |-> TRUE, lsq |-> Append(f.lsq, base),
                       rob |-> f.rob, num |-> num + 1,
                       src |-> -1, calls |-> f.calls]
        ELSE [ok |-> TRUE, lsq |-> Append(lsq, base), rob |-> rob,
              num |-> num + 1, src |-> -1, calls |-> {}]

\* LSQ::commit.
LSQcommit(lsq, rob, requestId) ==
    LET i == Find(lsq, requestId)
    IN  IF i = 0 THEN [lsq |-> lsq, rob |-> rob, calls |-> {}]
        ELSE IF lsq[i].type = "WRITE"
        THEN [lsq |-> [lsq EXCEPT ![i].cache_ack = TRUE], rob |-> rob,
              calls |-> {}]
        ELSE LET lsq1 == [lsq EXCEPT ![i].ready = TRUE]
                 rob1 == ROBcommit(rob, requestId)
                 f == ldFwd(lsq1, rob1, lsq[i].addr)
             IN  [lsq |-> f.lsq, rob |-> f.rob, calls |-> f.calls]

SendableReadyLoad(e) ==
    \/ e.type = "WRITE" /\ e.ready /\ ~e.waitingForCache
    \/ e.type = "READ" /\ ~e.waitingForCache

\* The entries LSQ::pushToCache may send.
Sendable(e) ==
    \/ e.type = "WRITE" /\ e.ready /\ ~e.waitingForCache
    \/ e.type = "READ" /\ ~e.ready /\ ~e.waitingForCache

\* The entry pushToCache picks: the first sendable one, 0 if none.
PushPickLast(lsq) ==
    IF \E i \in DOMAIN lsq : Sendable(lsq[i])
    THEN CHOOSE i \in DOMAIN lsq :
             Sendable(lsq[i]) /\ \A j \in (i + 1)..Len(lsq) : ~Sendable(lsq[j])
    ELSE 0

PushPick(lsq) ==
    IF \E i \in DOMAIN lsq : Sendable(lsq[i])
    THEN CHOOSE i \in DOMAIN lsq :
             Sendable(lsq[i]) /\ \A j \in 1..(i - 1) : ~Sendable(lsq[j])
    ELSE 0

IsFullNever(fifo) == FALSE

IsFull(fifo) == Len(fifo) = m_fifoDepth

\* LSQ::pushToCache.  Result: the queue, the TX FIFO and the insertions.
pushToCache(lsq, tx) ==
    LET i == PushPick(lsq)
    IN  IF lsq = <<>> \/ IsFull(tx) \/ i = 0
        THEN [lsq |-> lsq, tx |-> tx, log |-> <<>>]
        ELSE [lsq |-> [lsq EXCEPT ![i].waitingForCache = TRUE],
              tx |-> Append(tx, [msgId |-> lsq[i].msgId,
                                 type |-> lsq[i].type,
                                 addr |-> lsq[i].addr]),
              log |-> <<[msgId |-> lsq[i].msgId, type |-> lsq[i].type,
                         pos |-> i]>>]

rxFromCacheClearsWaiting(lsq, rob, msgId) ==
    LET i == Find(lsq, msgId)
    IN  IF i = 0 THEN [lsq |-> lsq, rob |-> rob, calls |-> {}]
        ELSE IF lsq[i].type = "READ"
        THEN LET lsq1 == [lsq EXCEPT ![i].ready = TRUE,
                                     ![i].waitingForCache = FALSE]
                 rob1 == ROBcommit(rob, msgId)
                 f == ldFwd(lsq1, rob1, lsq[i].addr)
             IN  [lsq |-> f.lsq, rob |-> f.rob, calls |-> f.calls]
        ELSE [lsq |-> [lsq EXCEPT ![i].cache_ack = TRUE,
                                  ![i].waitingForCache = FALSE],
              rob |-> rob, calls |-> {}]

\* LSQ::rxFromCache for the response at the front of a non-empty RX FIFO.
rxFromCache(lsq, rob, msgId) ==
    LET i == Find(lsq, msgId)
    IN  IF i = 0 THEN [lsq |-> lsq, rob |-> rob, calls |-> {}]
        ELSE IF lsq[i].type = "READ"
        THEN LET lsq1 == [lsq EXCEPT ![i].ready = TRUE]
                 rob1 == ROBcommit(rob, msgId)
                 f == ldFwd(lsq1, rob1, lsq[i].addr)
             IN  [lsq |-> f.lsq, rob |-> f.rob, calls |-> f.calls]
        ELSE [lsq |-> [lsq EXCEPT ![i].cache_ack = TRUE], rob |-> rob,
              calls |-> {}]

CanRemoveAckOnly(e) == e.cache_ack

CanRemoveStoresOnly(e) == e.type = "WRITE" /\ e.cache_ack

\* The removal predicate of LSQ::retire.
CanRemove(e) == IF e.type = "READ" THEN e.ready ELSE e.cache_ack

\* LSQ::retire: the loop erases every removable entry and steps over the
\* others.
LSQretire(lsq) ==
    Keep(lsq, {i \in DOMAIN lsq : ~CanRemove(lsq[i])}, 1)

-----------------------------------------------------------------------------
\* ROB::retire: up to IPC ready entries leave from the head; a store tells
\* the LSQ (LSQ::commit) before it leaves.

\* The entry the loop of ROB::retire takes next: the head if it is ready
\* (index 1), none (0) otherwise.
RetireIndexAnyReady(rob) ==
    IF \E i \in DOMAIN rob : rob[i].ready
    THEN CHOOSE i \in DOMAIN rob :
             rob[i].ready /\ \A j \in 1..(i - 1) : ~rob[j].ready
    ELSE 0

RetireIndex(rob) == IF rob # <<>> /\ rob[1].ready THEN 1 ELSE 0

RECURSIVE ROBretire(_, _, _, _)
ROBretire(rob, lsq, count, log) ==
    IF count < IPC /\ RetireIndex(rob) # 0
    THEN LET i == RetireIndex(rob)
             lsq1 == IF rob[i].type = "WRITE"
                     THEN LSQcommit(lsq, rob, rob[i].msgId).lsq
                     ELSE lsq
         IN  ROBretire(Erase(rob, i), lsq1, count + 1,
                       Append(log, rob[i].msgId))
    ELSE [rob |-> rob, lsq |-> lsq, count |-> count, log |-> log]

\* ROB::step with m_current_cycle = cycle: nothing happens from the cycle
\* limit on, retire() and m_current_cycle++ before it.
ROBstep(rob, lsq, num, cycle) ==
    IF cycle >= CycleLimit
    THEN [rob |-> rob, lsq |-> lsq, num |-> num, cycle |-> cycle,
          log |-> <<>>]
    ELSE LET r == ROBretire(rob, lsq, 0, <<>>)
         IN  [rob |-> r.rob, lsq |-> r.lsq, num |-> num - r.count,
              cycle |-> cycle + 1, log |-> r.log]

-----------------------------------------------------------------------------
\* ROB::allocate and LSQ::allocate as the TraceDriver calls them.

ROBallocate(rob, num, request) ==
    IF ROBcanAccept(num)
    THEN [ok |-> TRUE, rob |-> Append(rob, ROBEntry(request)), num |-> num + 1]
    ELSE [ok |-> FALSE, rob |-> rob, num |-> num]

\* ROB::removeLastEntry.
removeLastEntry(rob, num) ==
    IF rob # <<>>
    THEN [rob |-> SubSeq(rob, 1, Len(rob) - 1), num |-> num - 1]
    ELSE [rob |-> rob, num |-> num]

\* The completion test at the end of ProcessRxBuf.
SimCompleteTraceOnly(reqDone, respCnt, reqCnt) == reqDone

SimComplete(reqDone, respCnt, reqCnt) == reqDone /\ respCnt >= reqCnt

-----------------------------------------------------------------------------
\* The state after construction and init(), the FIFOs set to `depth`.
InitDepth(depth) ==
    /\ m_fifoDepth = depth
    /\ txCycleStart = 0
    /\ cycleOps = <<>>
    /\ pc = "rob"
    /\ m_rob_q = <<>>
    /\ m_rob_num = 0
    /\ m_rob_cycle = 0
    /\ m_lsq_q = <<>>
    /\ m_lsq_num = 0
    /\ m_txFIFO = <<>>
    /\ m_rxFIFO = <<>>
    /\ cachePending = {}
    /\ linesRead = 0
    /\ eof = FALSE
    /\ m_cpuCycle = 0
    /\ m_remaining_compute = 0
    /\ m_newSampleRdy = FALSE
    /\ m_cpuReqDone = FALSE
    /\ m_cpuCoreSimDone = FALSE
    /\ m_sent_requests = 0
    /\ m_cpuReqCnt = 0
    /\ m_cpuRespCnt = 0
    /\ m_cpuMemReq = NoReq
    /\ dispatched = <<>>
    /\ retired = <<>>
    /\ traceOk = TRUE
    /\ memOwed = 0
    /\ rolledBack = FALSE
    /\ txLog = <<>>
    /\ rxConsumed = {}
    /\ fwdCalls = {}
    /\ allocLog = NoReq

Init == InitDepth(FifoDepth)

\* The same core with FIFOs one deeper.
InitDeep == InitDepth(FifoDepth + 1)

cpuUnchanged ==
    UNCHANGED <<linesRead, eof, m_cpuCycle, m_remaining_compute,
                m_newSampleRdy, m_cpuReqDone, m_cpuCoreSimDone,
                m_sent_requests, m_cpuReqCnt, m_cpuRespCnt, m_cpuMemReq,
                traceOk, memOwed, m_fifoDepth>>

\* Step, first call: m_rob->setCycle(m_cpuCycle); m_rob->step().
StepROB ==
    /\ pc = "rob"
    /\ pc' = "lsq_push"
    /\ LET r == ROBstep(m_rob_q, m_lsq_q, m_rob_num, m_cpuCycle)
       IN  /\ m_rob_cycle' = r.cycle
           /\ m_rob_q' = r.rob
           /\ m_rob_num' = r.num
           /\ m_lsq_q' = r.lsq
           /\ retired' = retired \o r.log
    /\ txCycleStart' = Len(txLog)
    /\ cycleOps' = <<"ROB::step">>
    /\ fwdCalls' = {}
    /\ allocLog' = NoReq
    /\ rolledBack' = FALSE
    /\ cpuUnchanged
    /\ UNCHANGED <<m_lsq_num, m_txFIFO, m_rxFIFO, cachePending, dispatched,
                   txLog, rxConsumed>>

\* m_lsq->step(), first half: pushToCache().
StepLSQPush ==
    /\ pc = "lsq_push"
    /\ pc' = "lsq_retire"
    /\ LET p == pushToCache(m_lsq_q, m_txFIFO)
       IN  /\ m_lsq_q' = p.lsq
           /\ m_txFIFO' = p.tx
           /\ txLog' = txLog \o p.log
    /\ cycleOps' = Append(cycleOps, "LSQ::pushToCache")
    /\ fwdCalls' = {}
    /\ allocLog' = NoReq
    /\ rolledBack' = FALSE
    /\ cpuUnchanged
    /\ UNCHANGED <<m_rob_q, m_rob_num, m_rob_cycle, m_lsq_num, m_rxFIFO,
                   cachePending, dispatched, retired, rxConsumed,
                   txCycleStart>>

\* m_lsq->step(), second half: retire().
StepLSQRetire ==
    /\ pc = "lsq_retire"
    /\ pc' = "rx"
    /\ m_lsq_q' = LSQretire(m_lsq_q)
    /\ m_lsq_num' = m_lsq_num - (Len(m_lsq_q) - Len(LSQretire(m_lsq_q)))
    /\ cycleOps' = Append(cycleOps, "LSQ::retire")
    /\ fwdCalls' = {}
    /\ allocLog' = NoReq
    /\ rolledBack' = FALSE
    /\ cpuUnchanged
    /\ UNCHANGED <<m_rob_q, m_rob_num, m_rob_cycle, m_txFIFO, m_rxFIFO,
                   cachePending, dispatched, retired, txLog, rxConsumed,
                   txCycleStart>>

\* Step: if the RX FIFO is not empty, m_lsq->rxFromCache().
StepRx ==
    /\ pc = "rx"
    /\ pc' = "push"
    /\ IF m_rxFIFO # <<>>
       THEN LET r == rxFromCache(m_lsq_q, m_rob_q, Head(m_rxFIFO))
            IN  /\ m_rxFIFO' = Tail(m_rxFIFO)
                /\ m_lsq_q' = r.lsq
                /\ m_rob_q' = r.rob
                /\ rxConsumed' = rxConsumed \cup {Head(m_rxFIFO)}
                /\ fwdCalls' = r.calls
                /\ cycleOps' = Append(cycleOps, "LSQ::rxFromCache")
       ELSE /\ UNCHANGED <<m_rxFIFO, m_lsq_q, m_rob_q, rxConsumed, cycleOps>>
            /\ fwdCalls' = {}
    /\ allocLog' = NoReq
    /\ rolledBack' = FALSE
    /\ cpuUnchanged
    /\ UNCHANGED <<m_rob_num, m_rob_cycle, m_lsq_num, m_txFIFO, cachePending,
                   dispatched, retired, txLog, txCycleStart>>

\* Step: if the TX FIFO is not full, m_lsq->pushToCache().
StepPush ==
    /\ pc = "push"
    /\ pc' = "tx"
    /\ LET p == IF ~IsFull(m_txFIFO) THEN pushToCache(m_lsq_q, m_txFIFO)
                ELSE [lsq |-> m_lsq_q, tx |-> m_txFIFO, log |-> <<>>]
       IN  /\ m_lsq_q' = p.lsq
           /\ m_txFIFO' = p.tx
           /\ txLog' = txLog \o p.log
    /\ cycleOps' = IF ~IsFull(m_txFIFO)
                   THEN Append(cycleOps, "LSQ::pushToCache") ELSE cycleOps
    /\ fwdCalls' = {}
    /\ allocLog' = NoReq
    /\ rolledBack' = FALSE
    /\ cpuUnchanged
    /\ UNCHANGED <<m_rob_q, m_rob_num, m_rob_cycle, m_lsq_num, m_rxFIFO,
                   cachePending, dispatched, retired, rxConsumed,
                   txCycleStart>>

\* ProcessTxBuf works on the state of the core; `t` below is that state
\* while the function runs: ret is set once the function has returned.
TxStart ==
    [lsq |-> m_lsq_q, lsqNum |-> m_lsq_num, rob |-> m_rob_q,
     robNum |-> m_rob_num, tx |-> m_txFIFO, rem |-> m_remaining_compute,
     cnt |-> m_cpuReqCnt, sent |-> m_sent_requests, rdy |-> m_newSampleRdy,
     req |-> m_cpuMemReq, reqDone |-> m_cpuReqDone, eof |-> eof,
     lines |-> linesRead, ret |-> FALSE,
     log |-> <<>>, disp |-> <<>>, calls |-> {}, alloc |-> NoReq,
     rolledBack |-> FALSE]

\* lines 161-164: the LSQ may send to the cache first.
TxPush(t) ==
    IF IsFull(t.tx) THEN t
    ELSE LET p == pushToCache(t.lsq, t.tx)
         IN  [t EXCEPT !.lsq = p.lsq, !.tx = p.tx, !.log = p.log]

TxComputeAllocateSameId(t) ==
    LET compute_req == [msgId |-> t.cnt, type |-> "COMPUTE", addr |-> 0]
        a == ROBallocate(t.rob, t.robNum, compute_req)
    IN  IF a.ok
        THEN [t EXCEPT !.rob = a.rob, !.robNum = a.num,
                       !.rem = t.rem - 1, !.sent = t.sent + 1,
                       !.disp = <<compute_req.msgId>>]
        ELSE t

TxComputeAllocateIntoLsq(t) ==
    LET compute_req == [msgId |-> t.cnt, type |-> "COMPUTE", addr |-> 0]
        a == ROBallocate(t.rob, t.robNum, compute_req)
        l == LSQallocate(t.lsq, a.rob, t.lsqNum, compute_req)
    IN  IF a.ok
        THEN [t EXCEPT !.cnt = t.cnt + 1, !.rob = a.rob, !.robNum = a.num,
                       !.lsq = l.lsq, !.lsqNum = l.num,
                       !.rem = t.rem - 1, !.sent = t.sent + 1,
                       !.disp = <<compute_req.msgId>>]
        ELSE [t EXCEPT !.cnt = t.cnt + 1]

\* lines 175-195: allocate one compute instruction.
TxComputeAllocate(t) ==
    LET compute_req == [msgId |-> t.cnt, type |-> "COMPUTE", addr |-> 0]
        a == ROBallocate(t.rob, t.robNum, compute_req)
    IN  IF a.ok
        THEN [t EXCEPT !.cnt = t.cnt + 1, !.rob = a.rob, !.robNum = a.num,
                       !.rem = t.rem - 1, !.sent = t.sent + 1,
                       !.disp = <<compute_req.msgId>>]
        ELSE [t EXCEPT !.cnt = t.cnt + 1]

TxComputeNoRobGuard(t) ==
    IF t.rem = 0 THEN t
    ELSE LET t1 == IF t.sent < NumOoO
                   THEN TxComputeAllocate(t) ELSE t
         IN  [t1 EXCEPT !.ret = (t1.rem > 0)]

TxComputeNoBudget(t) ==
    IF t.rem = 0 THEN t
    ELSE LET t1 == IF ROBcanAccept(t.robNum)
                   THEN TxComputeAllocate(t) ELSE t
         IN  [t1 EXCEPT !.ret = (t1.rem > 0)]

\* lines 166-204: the compute instructions left of the current group.
TxCompute(t) ==
    IF t.rem = 0 THEN t
    ELSE LET t1 == IF ROBcanAccept(t.robNum) /\ t.sent < NumOoO
                   THEN TxComputeAllocate(t) ELSE t
         IN  [t1 EXCEPT !.ret = (t1.rem > 0)]

\* lines 206-211: the budget of in-flight requests.
TxBudget(t) ==
    IF ~t.ret /\ t.sent >= NumOoO THEN [t EXCEPT !.ret = TRUE] ELSE t

TxReadsIgnoreEof(t) == ~t.ret /\ ~t.rdy /\ t.rem = 0

\* line 214: does this call read the trace?
TxReads(t) == ~t.ret /\ ~t.rdy /\ ~t.eof /\ t.rem = 0

\* lines 219-258: a line was read.
TxParse(t, line) ==
    IF ~line.ok THEN t
    ELSE IF line.n > 0 THEN [t EXCEPT !.rem = line.n, !.ret = TRUE]
    ELSE IF line.type \in {"R", "W"}
    THEN [t EXCEPT !.rem = line.n,
                   !.req = [msgId |-> t.cnt,
                            type |-> IF line.type = "R" THEN "READ"
                                     ELSE "WRITE",
                            addr |-> line.addr],
                   !.cnt = t.cnt + 1,
                   !.rdy = TRUE]
    ELSE [t EXCEPT !.rem = line.n]

\* lines 213-264: `line` is what std::getline returns, EndOfFile when it
\* fails.
TxRead(t, line) ==
    IF ~TxReads(t) THEN t
    ELSE IF line = EndOfFile THEN [t EXCEPT !.reqDone = TRUE, !.eof = TRUE]
    ELSE TxParse([t EXCEPT !.lines = t.lines + 1], line)

\* lines 271-281: forwarding is tried for a load before it is allocated.
TxFwd(t) ==
    IF t.req.type = "READ"
    THEN LET f == ldFwd(t.lsq, t.rob, t.req.addr)
         IN  [t EXCEPT !.lsq = f.lsq, !.rob = f.rob, !.calls = f.calls]
    ELSE t

\* lines 283-302: ROB first, then LSQ, roll the ROB back if the LSQ fails.
\* `pre` is the LSQ as the attempt found it.
TxCoAllocate(t, pre) ==
    LET ra == ROBallocate(t.rob, t.robNum, t.req)
        la == LSQallocate(t.lsq, ra.rob, t.lsqNum, t.req)
        rb == removeLastEntry(la.rob, ra.num)
    IN  IF ~ra.ok THEN t
        ELSE IF ~la.ok
        THEN [t EXCEPT !.rob = rb.rob, !.robNum = rb.num,
                       !.rolledBack = TRUE]
        ELSE [t EXCEPT !.lsq = la.lsq, !.lsqNum = la.num, !.rob = la.rob,
                       !.robNum = ra.num, !.sent = t.sent + 1,
                       !.rdy = FALSE,
                       !.disp = t.disp \o <<t.req.msgId>>,
                       !.calls = t.calls \cup la.calls,
                       !.alloc = [msgId |-> t.req.msgId,
                                  type |-> t.req.type,
                                  addr |-> t.req.addr,
                                  pre |-> pre,
                                  ready |-> la.lsq[Len(la.lsq)].ready,
                                  robReady |-> la.rob[Len(la.rob)].ready,
                                  src |-> la.src]]

TxMemBudgetGuardOnly(t) ==
    IF ~t.ret /\ t.rdy /\ t.sent < NumOoO
    THEN TxCoAllocate(TxFwd(t), t.lsq)
    ELSE t

TxMemNoLsqGuard(t) ==
    IF /\ ~t.ret /\ t.rdy
       /\ ROBcanAccept(t.robNum)
       /\ t.sent < NumOoO
    THEN TxCoAllocate(TxFwd(t), t.lsq)
    ELSE t

\* lines 266-304: the pending memory operation.
TxMem(t) ==
    IF /\ ~t.ret /\ t.rdy
       /\ ROBcanAccept(t.robNum) /\ LSQcanAccept(t.lsqNum)
       /\ t.sent < NumOoO
    THEN TxCoAllocate(TxFwd(t), t.lsq)
    ELSE t

\* ProcessTxBuf leaves the state `t` in the fields of the core.
TxCommit(t) ==
    /\ m_lsq_q' = t.lsq
    /\ m_lsq_num' = t.lsqNum
    /\ m_rob_q' = t.rob
    /\ m_rob_num' = t.robNum
    /\ m_txFIFO' = t.tx
    /\ txLog' = txLog \o t.log
    /\ m_remaining_compute' = t.rem
    /\ m_cpuReqCnt' = t.cnt
    /\ m_sent_requests' = t.sent
    /\ m_newSampleRdy' = t.rdy
    /\ m_cpuMemReq' = t.req
    /\ m_cpuReqDone' = t.reqDone
    /\ eof' = t.eof
    /\ linesRead' = t.lines
    /\ dispatched' = dispatched \o t.disp
    /\ fwdCalls' = t.calls
    /\ allocLog' = t.alloc
    /\ rolledBack' = t.rolledBack
    /\ UNCHANGED <<m_rob_cycle, m_rxFIFO, cachePending, m_cpuCycle,
                   m_cpuCoreSimDone, m_cpuRespCnt, retired, rxConsumed,
                   m_fifoDepth, txCycleStart>>

\* ProcessTxBuf, lines 161-164.
ProcessTxBufPush ==
    /\ pc = "tx"
    /\ pc' = "tx_compute"
    /\ \E t \in {TxPush(TxStart)} : TxCommit(t)
    /\ cycleOps' = cycleOps \o <<"ProcessTxBuf">>
                      \o (IF ~IsFull(m_txFIFO)
                          THEN <<"LSQ::pushToCache">> ELSE <<>>)
    /\ UNCHANGED <<traceOk, memOwed>>

\* ProcessTxBuf, lines 166-211: it returns from here while compute
\* instructions are left or the budget is used up.
ProcessTxBufCompute ==
    /\ pc = "tx_compute"
    /\ \E t \in {TxBudget(TxCompute(TxStart))} :
         /\ pc' = IF t.ret THEN "rxbuf" ELSE "tx_read"
         /\ cycleOps' = IF t.ret THEN Append(cycleOps, "ProcessRxBuf")
                        ELSE cycleOps
         /\ TxCommit(t)
    /\ UNCHANGED <<traceOk, memOwed>>

\* ProcessTxBuf, lines 213-264: it returns from here when the line read
\* starts with compute instructions.
\* The trace file holds at most `maxLines` lines, each drawn from `lines`.
ReadLine(lines, maxLines) ==
    /\ pc = "tx_read"
    /\ \E line \in (IF TxReads(TxStart) /\ linesRead < maxLines
                    THEN lines \cup {EndOfFile} ELSE {EndOfFile}) :
         \E t \in {TxRead(TxStart, line)} :
             /\ pc' = IF t.ret THEN "rxbuf" ELSE "tx_mem"
             /\ cycleOps' = IF t.ret THEN Append(cycleOps, "ProcessRxBuf")
                            ELSE cycleOps
             /\ TxCommit(t)
             /\ traceOk' = (traceOk /\ (t.lines > linesRead =>
                                          line.ok /\ line.type \in {"R", "W"}))
             /\ memOwed' = IF /\ t.lines > linesRead
                              /\ line.ok /\ line.type \in {"R", "W"}
                           THEN memOwed + 1 ELSE memOwed

ProcessTxBufRead == ReadLine(TraceLines, MaxLines)

\* The same step over longer traces of well-formed groups that are either a
\* lone memory operation or MaxCompute compute instructions and one.
ProcessTxBufReadLong == ReadLine(LongLines, MaxLongLines)

\* ProcessTxBuf, lines 266-304.
ProcessTxBufMem ==
    /\ pc = "tx_mem"
    /\ pc' = "rxbuf"
    /\ cycleOps' = Append(cycleOps, "ProcessRxBuf")
    /\ \E t \in {TxMem(TxStart)} :
         /\ TxCommit(t)
         /\ memOwed' = IF t.alloc # NoReq THEN memOwed - 1 ELSE memOwed
    /\ UNCHANGED traceOk

\* ProcessRxBuf, lines 321-344: one iteration of the while loop over the
\* RX FIFO.
ProcessRxBufPop ==
    /\ pc = "rxbuf"
    /\ m_rxFIFO # <<>>
    /\ \E c \in {LSQcommit(m_lsq_q, ROBcommit(m_rob_q, Head(m_rxFIFO)),
                           Head(m_rxFIFO))} :
         /\ m_lsq_q' = c.lsq
         /\ m_rob_q' = c.rob
         /\ fwdCalls' = c.calls
    /\ m_rxFIFO' = Tail(m_rxFIFO)
    /\ m_sent_requests' =
           IF m_sent_requests > 0 THEN m_sent_requests - 1 ELSE m_sent_requests
    /\ m_cpuRespCnt' =
           IF m_sent_requests > 0 THEN m_cpuRespCnt + 1 ELSE m_cpuRespCnt
    /\ rxConsumed' = rxConsumed \cup {Head(m_rxFIFO)}
    /\ allocLog' = NoReq
    /\ rolledBack' = FALSE
    /\ UNCHANGED <<pc, m_rob_num, m_rob_cycle, m_lsq_num, m_txFIFO,
                   cachePending, linesRead, eof, m_cpuCycle,
                   m_remaining_compute, m_newSampleRdy, m_cpuReqDone,
                   m_cpuCoreSimDone, m_cpuReqCnt, m_cpuMemReq, dispatched,
                   retired, traceOk, memOwed, txLog, m_fifoDepth,
                   txCycleStart, cycleOps>>

\* ProcessRxBuf, lines 346-354: the RX FIFO is empty, the completion test.
ProcessRxBufDone ==
    /\ pc = "rxbuf"
    /\ m_rxFIFO = <<>>
    /\ pc' = "rob"
    /\ m_cpuCoreSimDone' =
           (m_cpuCoreSimDone
            \/ SimComplete(m_cpuReqDone, m_cpuRespCnt, m_cpuReqCnt))
    /\ cycleOps' = <<>>
    /\ fwdCalls' = {}
    /\ allocLog' = NoReq
    /\ rolledBack' = FALSE
    /\ UNCHANGED <<m_rob_q, m_rob_num, m_rob_cycle, m_lsq_q, m_lsq_num,
                   m_txFIFO, m_rxFIFO, cachePending, linesRead, eof,
                   m_cpuCycle, m_remaining_compute, m_newSampleRdy,
                   m_cpuReqDone, m_sent_requests, m_cpuReqCnt, m_cpuRespCnt,
                   m_cpuMemReq, dispatched, retired, traceOk, memOwed, txLog,
                   rxConsumed, m_fifoDepth, txCycleStart>>

-----------------------------------------------------------------------------
\* The cache side of the CpuFIFO, between two cycles: it takes the request
\* at the front of the TX FIFO (peekMessage, popFrontMessage) and later
\* answers each request it took once, in any order (pushMessage).

CacheTake ==
    /\ pc = "rob"
    /\ m_txFIFO # <<>>
    /\ cachePending' = cachePending \cup {Head(m_txFIFO).msgId}
    /\ m_txFIFO' = Tail(m_txFIFO)
    /\ cpuUnchanged
    /\ UNCHANGED <<pc, m_rob_q, m_rob_num, m_rob_cycle, m_lsq_q, m_lsq_num,
                   m_rxFIFO, hist>>

CacheRespond ==
    /\ pc = "rob"
    /\ \E id \in cachePending :
         /\ m_rxFIFO' = Append(m_rxFIFO, id)
         /\ cachePending' = cachePending \ {id}
    /\ cpuUnchanged
    /\ UNCHANGED <<pc, m_rob_q, m_rob_num, m_rob_cycle, m_lsq_q, m_lsq_num,
                   m_txFIFO, hist>>

Next ==
    \/ StepROB
    \/ StepLSQPush
    \/ StepLSQRetire
    \/ StepRx
    \/ StepPush
    \/ ProcessTxBufPush
    \/ ProcessTxBufCompute
    \/ ProcessTxBufRead
    \/ ProcessTxBufMem
    \/ ProcessRxBufPop
    \/ ProcessRxBufDone
    \/ CacheTake
    \/ CacheRespond

Spec == Init /\ [][Next]_vars

NextLong ==
    \/ StepROB
    \/ StepLSQPush
    \/ StepLSQRetire
    \/ StepRx
    \/ StepPush
    \/ ProcessTxBufPush
    \/ ProcessTxBufCompute
    \/ ProcessTxBufReadLong
    \/ ProcessTxBufMem
    \/ ProcessRxBufPop
    \/ ProcessRxBufDone
    \/ CacheTake
    \/ CacheRespond

SpecLong == Init /\ [][NextLong]_vars

\* The core with FIFOs of depth FifoDepth + 1, on the traces of SpecLong.
SpecDeep == InitDeep /\ [][NextLong]_vars

\* The scheduling the liveness claims assume: the cycle callback keeps
\* running, and the cache takes every request and answers every request it
\* took.  The cache acts between cycles only, so its steps are enabled again
\* and again rather than continuously: strong fairness.
Cycle ==
    \/ StepROB \/ StepLSQPush \/ StepLSQRetire \/ StepRx \/ StepPush
    \/ ProcessTxBufPush \/ ProcessTxBufCompute \/ ProcessTxBufRead
    \/ ProcessTxBufMem \/ ProcessRxBufPop \/ ProcessRxBufDone

FairSpec ==
    /\ Spec
    /\ WF_vars(Cycle)
    /\ SF_vars(CacheTake)
    /\ SF_vars(CacheRespond)

-----------------------------------------------------------------------------
\* The ROB on its own, driven through its public interface by any caller:
\* step, allocate and commit in any order.  The LSQ holds no
\* entries; the caller numbers its requests with m_cpuReqCnt.

robAlone ==
    UNCHANGED <<pc, m_lsq_q, m_lsq_num, m_txFIFO, m_rxFIFO, cachePending,
                linesRead, eof, m_cpuCycle, m_remaining_compute,
                m_newSampleRdy, m_cpuReqDone, m_cpuCoreSimDone,
                m_sent_requests, m_cpuRespCnt, m_cpuMemReq, m_fifoDepth,
                hist>>

\* ROB::step.
RobStep ==
    /\ \E r \in {ROBstep(m_rob_q, m_lsq_q, m_rob_num, m_rob_cycle)} :
         /\ m_rob_q' = r.rob
         /\ m_rob_num' = r.num
         /\ m_rob_cycle' = r.cycle
    /\ UNCHANGED m_cpuReqCnt
    /\ robAlone

\* ROB::allocate with a request of any type.
RobAllocate ==
    /\ m_cpuReqCnt < MaxRobRequests
    /\ \E type \in {"COMPUTE", "READ", "WRITE"} :
         \E a \in {ROBallocate(m_rob_q, m_rob_num,
                               [msgId |-> m_cpuReqCnt, type |-> type,
                                addr |-> 1])} :
             /\ m_rob_q' = a.rob
             /\ m_rob_num' = a.num
    /\ m_cpuReqCnt' = m_cpuReqCnt + 1
    /\ UNCHANGED m_rob_cycle
    /\ robAlone

\* ROB::commit with any message id.
RobCommit ==
    /\ \E id \in 0..m_cpuReqCnt : m_rob_q' = ROBcommit(m_rob_q, id)
    /\ UNCHANGED <<m_rob_num, m_rob_cycle, m_cpuReqCnt>>
    /\ robAlone

NextROB ==
    \/ RobStep
    \/ RobAllocate
    \/ RobCommit

SpecROB == Init /\ [][NextROB]_vars

TypeOK ==
    pc \in {"rob", "lsq_push", "lsq_retire", "rx", "push", "tx", "tx_compute",
            "tx_read", "tx_mem", "rxbuf"}

-----------------------------------------------------------------------------
\* Claims

IsPrefix(a, b) ==
    /\ Len(a) <= Len(b)
    /\ \A i \in 1..Len(a) : a[i] = b[i]

\* C1: the msgIds retired from the ROB are, in order, a prefix of the
\* msgIds dispatched into the ROB: nothing retires before an instruction
\* dispatched earlier.
C1_RetireInDispatchOrder == IsPrefix(retired, dispatched)

\* Two instructions have retired while a later one is still in the ROB,
\* not ready, with a ready one behind it.
C1_Witness ==
    /\ Len(retired) >= 2
    /\ Len(m_rob_q) >= 2
    /\ ~m_rob_q[1].ready
    /\ m_rob_q[2].ready

\* C2: neither queue ever holds more than its MAX_ENTRIES, the entry
\* counters agree with the queues, and canAccept() is true exactly when the
\* queue holds fewer than MAX_ENTRIES entries.
C2_SizesBounded ==
    /\ Len(m_rob_q) <= ROB_MAX_ENTRIES
    /\ Len(m_lsq_q) <= LSQ_MAX_ENTRIES
    /\ m_rob_num = Len(m_rob_q)
    /\ m_lsq_num = Len(m_lsq_q)
    /\ ROBcanAccept(m_rob_num) <=> (Len(m_rob_q) < ROB_MAX_ENTRIES)
    /\ LSQcanAccept(m_lsq_num) <=> (Len(m_lsq_q) < LSQ_MAX_ENTRIES)

\* The TX stage found the ROB full and could not dispatch the compute
\* instruction that is waiting; the LSQ holds entries too.
C2_Witness ==
    /\ pc = "rxbuf"
    /\ Len(m_rob_q) = ROB_MAX_ENTRIES
    /\ ~ROBcanAccept(m_rob_num)
    /\ m_remaining_compute > 0
    /\ m_lsq_q # <<>>

\* The termination predicate of the specification.
Terminated ==
    /\ m_cpuReqDone
    /\ m_sent_requests = 0
    /\ m_rob_q = <<>>
    /\ m_lsq_q = <<>>

\* C3: the done flag is set only when the trace is exhausted, nothing is in
\* flight and ROB and LSQ are empty, and whenever that holds at the end of
\* the RX stage (the end of the cycle) the flag is set.
C3_DoneIffTerminated ==
    /\ m_cpuCoreSimDone => Terminated
    /\ (Terminated /\ pc = "rob") => m_cpuCoreSimDone

\* The RX stage has set the flag after a trace that was read to its end.
C3_Witness ==
    /\ m_cpuCoreSimDone
    /\ linesRead > 0
    /\ pc = "rob"

\* C4: with a fair cycle and a cache that answers every request, every
\* trace of well-formed groups ends with nothing in flight, ROB and LSQ
\* empty and the done flag set.
C4_EventuallyDone ==
    <>(~traceOk \/ (Terminated /\ m_cpuCoreSimDone))

\* The stores to the address of the load just allocated, in the LSQ as the
\* allocation found it.
AllocStores ==
    {i \in DOMAIN allocLog.pre : /\ allocLog.pre[i].type = "WRITE"
                                 /\ allocLog.pre[i].addr = allocLog.addr}

C6_FwdOnlyYounger ==
    \A c \in fwdCalls :
        \A i \in DOMAIN c.pre :
            c.post[i].ready # c.pre[i].ready =>
                /\ c.pre[i].type = "READ"
                /\ c.pre[i].addr = c.addr
                /\ \E s \in DOMAIN c.pre :
                       /\ c.pre[s].type = "WRITE"
                       /\ c.pre[s].addr = c.addr
                       /\ s < i
                       /\ \A s2 \in DOMAIN c.pre :
                              (c.pre[s2].type = "WRITE"
                               /\ c.pre[s2].addr = c.addr) => s2 <= s

\* C7: every request inserted into the TX FIFO came from the entry at the
\* head of the LSQ.
C7_HeadOnlyIssue == \A k \in DOMAIN txLog : txLog[k].pos = 1

\* C8: the stores inserted into the TX FIFO appear in dispatch order: of
\* two stores in the TX log, the one inserted first was dispatched first.
C8_StoresInOrder ==
    \A j, k \in DOMAIN txLog :
        (j < k /\ txLog[j].type = "WRITE" /\ txLog[k].type = "WRITE")
            => \E a, b \in DOMAIN dispatched :
                   /\ a < b
                   /\ dispatched[a] = txLog[j].msgId
                   /\ dispatched[b] = txLog[k].msgId

\* Two stores have been inserted into the TX FIFO, the second of them from
\* behind the head of the LSQ.
C8_Witness ==
    \E j, k \in DOMAIN txLog :
        /\ j < k
        /\ txLog[j].type = "WRITE"
        /\ txLog[k].type = "WRITE"
        /\ txLog[k].pos > 1

\* C9: cache_ack is set only on stores whose response has been popped from
\* the RX FIFO.
C9_AckOnlyAfterResponse ==
    \A i \in DOMAIN m_lsq_q :
        (m_lsq_q[i].type = "WRITE" /\ m_lsq_q[i].cache_ack)
            => m_lsq_q[i].msgId \in rxConsumed

\* The number of entries at the front of q that are all removable.
RECURSIVE RemovablePrefix(_)
RemovablePrefix(q) ==
    IF q # <<>> /\ CanRemove(Head(q)) THEN 1 + RemovablePrefix(Tail(q)) ELSE 0

\* C10: a call of LSQ::retire removes the longest removable prefix of the
\* queue and nothing else.
C10_RetireDropsPrefix ==
    [][pc = "lsq_retire" =>
           m_lsq_q' = SubSeq(m_lsq_q, RemovablePrefix(m_lsq_q) + 1,
                             Len(m_lsq_q))]_vars

\* The msgIds of the entries of a queue.
Ids(q) == {q[i].msgId : i \in DOMAIN q}

\* C11: when LSQ::retire runs on a queue that holds a store the cache has
\* not answered yet and, behind it, a ready load to the same address, the
\* load leaves the LSQ and the store stays.
C11_StoreOutlivesForwardedLoad ==
    [][\A i, j \in DOMAIN m_lsq_q :
           (/\ pc = "lsq_retire"
            /\ i < j
            /\ m_lsq_q[i].type = "WRITE"
            /\ m_lsq_q[i].msgId \notin rxConsumed
            /\ m_lsq_q[j].type = "READ"
            /\ m_lsq_q[j].addr = m_lsq_q[i].addr
            /\ m_lsq_q[j].ready)
               => /\ m_lsq_q[j].msgId \notin Ids(m_lsq_q')
                  /\ m_lsq_q[i].msgId \in Ids(m_lsq_q')]_vars

\* C12: at the end of every cycle an LSQ entry without a ROB entry of its
\* msgId is a store without cache_ack that has retired from the ROB, and
\* every load in the LSQ has a ROB entry of its msgId.
C12_LsqEntriesBackedByRob ==
    pc = "rob" =>
        \A i \in DOMAIN m_lsq_q :
            /\ m_lsq_q[i].msgId \notin Ids(m_rob_q) =>
                   /\ m_lsq_q[i].type = "WRITE"
                   /\ ~m_lsq_q[i].cache_ack
                   /\ \E k \in DOMAIN retired : retired[k] = m_lsq_q[i].msgId
            /\ m_lsq_q[i].type = "READ" => m_lsq_q[i].msgId \in Ids(m_rob_q)

\* A cycle ends after retirements with a ready load and a store in the
\* LSQ.
C12_Witness ==
    /\ pc = "rob"
    /\ retired # <<>>
    /\ \E i, j \in DOMAIN m_lsq_q :
           /\ m_lsq_q[i].type = "READ" /\ m_lsq_q[i].ready
           /\ m_lsq_q[j].type = "WRITE"

\* C13: a load that is ready in the LSQ is ready in the ROB, whenever the
\* ROB holds an entry of its msgId.
C13_LsqReadyImpliesRobReady ==
    \A i \in DOMAIN m_lsq_q :
        (m_lsq_q[i].type = "READ" /\ m_lsq_q[i].ready) =>
            \A k \in DOMAIN m_rob_q :
                m_rob_q[k].msgId = m_lsq_q[i].msgId => m_rob_q[k].ready

\* A load that was sent to the cache is ready in the LSQ and in the ROB,
\* and so is a younger load that was never sent (it was forwarded).
C13_Witness ==
    \E i, j \in DOMAIN m_lsq_q :
        /\ i < j
        /\ m_lsq_q[i].type = "READ" /\ m_lsq_q[i].ready
        /\ m_lsq_q[i].waitingForCache
        /\ m_lsq_q[j].type = "READ" /\ m_lsq_q[j].ready
        /\ ~m_lsq_q[j].waitingForCache
        /\ \E k \in DOMAIN m_rob_q :
               m_rob_q[k].msgId = m_lsq_q[i].msgId /\ m_rob_q[k].ready

\* Every entry of q that is ready and still in the queue q2 (the entry of
\* the same msgId) is ready there.
StaysReady(q, q2) ==
    \A i \in DOMAIN q : \A k \in DOMAIN q2 :
        (q[i].ready /\ q2[k].msgId = q[i].msgId) => q2[k].ready

\* C14: no step takes the ready flag of a ROB entry or of an LSQ entry from
\* true back to false while the entry stays in its queue.
C14_ReadyMonotonic ==
    [][StaysReady(m_rob_q, m_rob_q') /\ StaysReady(m_lsq_q, m_lsq_q')]_vars

\* A load became ready after its allocation (it had been sent to the
\* cache) and is still in both queues, with a younger entry behind it.
C14_Witness ==
    /\ Len(m_lsq_q) >= 2
    /\ m_lsq_q[1].type = "READ"
    /\ m_lsq_q[1].ready
    /\ m_lsq_q[1].waitingForCache
    /\ \E k \in DOMAIN m_rob_q :
           m_rob_q[k].msgId = m_lsq_q[1].msgId /\ m_rob_q[k].ready

\* The msgIds of a queue grow strictly from head to tail.
StrictlyIncreasing(q) ==
    \A i, j \in DOMAIN q : i < j => q[i].msgId < q[j].msgId

C16_MemoryOpNeverDropped ==
    /\ memOwed <= 1
    /\ eof => memOwed = 0

\* The co-allocation stage finds a pending memory operation, a full LSQ and
\* room in the ROB.
LsqFullAttempt ==
    /\ pc = "tx_mem"
    /\ m_newSampleRdy
    /\ ~LSQcanAccept(m_lsq_num)
    /\ ROBcanAccept(m_rob_num)

\* What such a step leaves alone.
LsqFullFrame ==
    /\ m_rob_q' = m_rob_q /\ m_rob_num' = m_rob_num
    /\ m_lsq_q' = m_lsq_q /\ m_lsq_num' = m_lsq_num
    /\ m_sent_requests' = m_sent_requests
    /\ m_newSampleRdy' /\ m_cpuMemReq' = m_cpuMemReq
    /\ dispatched' = dispatched

\* C17 as stated: with the LSQ full and room in the ROB, the dispatch of the
\* pending memory operation allocates in the ROB, fails in the LSQ and rolls
\* the ROB back; sizes and in-flight counter are as before and the operation
\* stays pending.
C17_LsqFullRollsBack ==
    [][LsqFullAttempt => rolledBack' /\ LsqFullFrame]_vars

\* C17 amended: with the LSQ full and room in the ROB, the dispatch of the
\* pending memory operation is not attempted at all: nothing is allocated,
\* nothing is rolled back, no forwarding is tried; sizes and in-flight
\* counter are as before and the operation stays pending.
C17_LsqFullNoAttempt ==
    [][LsqFullAttempt =>
           /\ ~rolledBack' /\ fwdCalls' = {} /\ allocLog' = NoReq
           /\ LsqFullFrame]_vars

C17_Witness ==
    /\ pc = "rxbuf"
    /\ m_newSampleRdy
    /\ m_remaining_compute = 0
    /\ m_sent_requests < NumOoO
    /\ m_lsq_num = LSQ_MAX_ENTRIES
    /\ Len(m_lsq_q) = LSQ_MAX_ENTRIES
    /\ m_rob_num < ROB_MAX_ENTRIES
    /\ ~rolledBack

TxStages == {"tx", "tx_compute", "tx_read", "tx_mem"}

\* A step of ProcessTxBuf that finds the ROB full and an instruction pending:
\* compute instructions left of the current group, or a memory operation.
RobFullPending ==
    /\ pc \in TxStages
    /\ ~ROBcanAccept(m_rob_num)
    /\ m_remaining_compute > 0 \/ m_newSampleRdy

\* C18: while the ROB is full in ProcessTxBuf, no entry is added to the ROB
\* or the LSQ, the in-flight counter is unchanged, the pending instruction
\* stays pending as it is, and no trace line is read or given up.
C18_RobFullKeepsPending ==
    [][RobFullPending =>
           /\ m_rob_q' = m_rob_q /\ m_rob_num' = m_rob_num
           /\ Ids(m_lsq_q') = Ids(m_lsq_q) /\ m_lsq_num' = m_lsq_num
           /\ m_sent_requests' = m_sent_requests
           /\ m_remaining_compute' = m_remaining_compute
           /\ m_newSampleRdy' = m_newSampleRdy
           /\ m_cpuMemReq' = m_cpuMemReq
           /\ m_cpuReqCnt' = m_cpuReqCnt
           /\ dispatched' = dispatched
           /\ linesRead' = linesRead /\ eof' = eof /\ memOwed' = memOwed
           /\ ~rolledBack']_vars

\* A memory operation left pending by a full ROB.
C18_Witness ==
    /\ pc = "rxbuf"
    /\ Len(m_rob_q) = ROB_MAX_ENTRIES
    /\ m_rob_num = ROB_MAX_ENTRIES
    /\ m_newSampleRdy
    /\ m_sent_requests < NumOoO
    /\ m_cpuMemReq.msgId \notin Ids(m_rob_q)
    /\ m_lsq_num < LSQ_MAX_ENTRIES

\* The number of LSQ entries sent to the cache and marked as waiting.
Waiting(q) == Cardinality({i \in DOMAIN q : q[i].waitingForCache})

\* C19: after every cycle the in-flight counter and the number of LSQ
\* entries waiting for the cache differ by one fixed constant.  The state
\* after a cycle over an empty trace has both at 0, so the constant is 0.
C19_InFlightTracksWaiting ==
    pc = "rob" => m_sent_requests - Waiting(m_lsq_q) = 0

\* C20: compute instructions are outside the budget of in-flight requests:
\* the compute stage of ProcessTxBuf never changes the in-flight counter, and
\* it dispatches a compute instruction whenever one is left and the ROB can
\* accept it.
C20_ComputeNotCounted ==
    [][pc = "tx_compute" =>
           /\ m_sent_requests' = m_sent_requests
           /\ (m_remaining_compute > 0 /\ ROBcanAccept(m_rob_num))
                  => /\ Len(dispatched') = Len(dispatched) + 1
                     /\ m_remaining_compute' = m_remaining_compute - 1]_vars

\* C21: once the trace is exhausted, ROB and LSQ are empty and nothing is in
\* flight, no step of any later cycle changes ROB, LSQ, TX FIFO or the
\* in-flight counter, and the done flag, once set, stays set.
C21_StableAfterTermination ==
    [][/\ Terminated =>
              /\ UNCHANGED <<m_rob_q, m_rob_num, m_lsq_q, m_lsq_num, m_txFIFO,
                             m_sent_requests>>
              /\ Terminated'
       /\ m_cpuCoreSimDone => m_cpuCoreSimDone']_vars

\* A cycle that runs after the done flag was set.
C21_Witness ==
    /\ Terminated
    /\ m_cpuCoreSimDone
    /\ pc = "rxbuf"
    /\ linesRead < MaxLines

\* The message ids a commit can be called with: those handed out so far and
\* one that was never handed out.
CommitIds == 0..m_cpuReqCnt

\* A response at the front of the RX FIFO whose LSQ entry is gone.
LateResponse ==
    /\ pc \in {"rx", "rxbuf"}
    /\ m_rxFIFO # <<>>
    /\ Head(m_rxFIFO) \notin Ids(m_lsq_q)

\* C22: a commit for a message id that is not in the structure changes
\* nothing: ROB::commit leaves the ROB as it is, LSQ::commit and
\* LSQ::rxFromCache leave LSQ and ROB as they are; and the step that consumes
\* a response whose LSQ entry is gone changes neither ROB nor LSQ.
C22_CommitMissingIdNoOp ==
    [][/\ \A id \in CommitIds :
              /\ id \notin Ids(m_rob_q) => ROBcommit(m_rob_q, id) = m_rob_q
              /\ id \notin Ids(m_lsq_q) =>
                     /\ LSQcommit(m_lsq_q, m_rob_q, id).lsq = m_lsq_q
                     /\ LSQcommit(m_lsq_q, m_rob_q, id).rob = m_rob_q
                     /\ rxFromCache(m_lsq_q, m_rob_q, id).lsq = m_lsq_q
                     /\ rxFromCache(m_lsq_q, m_rob_q, id).rob = m_rob_q
       /\ LateResponse =>
              /\ m_rxFIFO' = Tail(m_rxFIFO)
              /\ UNCHANGED <<m_rob_q, m_rob_num, m_lsq_q, m_lsq_num>>]_vars

\* The response to a load is at the front of the RX FIFO when LSQ::rxFromCache
\* is about to run, the load has left the LSQ, and both queues hold other
\* entries.
C22_Witness ==
    /\ LateResponse
    /\ pc = "rx"
    /\ \E k \in DOMAIN txLog :
          txLog[k].msgId = Head(m_rxFIFO) /\ txLog[k].type = "READ"
    /\ m_lsq_q # <<>>
    /\ m_rob_q # <<>>

\* commit(id) on both structures, as ProcessRxBuf and ROB::retire call it.
CommitBoth(q, id) ==
    LET c == LSQcommit(q.lsq, ROBcommit(q.rob, id), id)
    IN  [lsq |-> c.lsq, rob |-> c.rob]

\* ldFwd(addr) leaves queues and a return value.
FwdOnce(q, addr) ==
    LET f == ldFwd(q.lsq, q.rob, addr)
    IN  [lsq |-> f.lsq, rob |-> f.rob, found |-> f.found]

Queues == [lsq |-> m_lsq_q, rob |-> m_rob_q]

\* C23: in every reachable state, commit(id) applied twice leaves ROB and
\* LSQ as commit(id) applied once does, for ROB::commit, LSQ::commit and
\* both together; and ldFwd(addr) applied twice leaves the queues and
\* returns the value that ldFwd(addr) applied once does.
C23_CommitAndFwdIdempotent ==
    /\ \A id \in CommitIds :
          /\ ROBcommit(ROBcommit(m_rob_q, id), id) = ROBcommit(m_rob_q, id)
          /\ LET c == LSQcommit(m_lsq_q, m_rob_q, id)
                 d == LSQcommit(c.lsq, c.rob, id)
             IN  d.lsq = c.lsq /\ d.rob = c.rob
          /\ CommitBoth(CommitBoth(Queues, id), id) = CommitBoth(Queues, id)
    /\ \A addr \in Addrs :
          LET f == FwdOnce(Queues, addr)
          IN  FwdOnce(f, addr) = f

\* A state in which a commit and a forwarding both change something: the
\* commit of a load that is not ready, and a store with two loads to its
\* address that are not ready.
C23_Witness ==
    /\ \E id \in CommitIds : CommitBoth(Queues, id) # Queues
    /\ \E addr \in Addrs :
          /\ ldFwd(m_lsq_q, m_rob_q, addr).found
          /\ Cardinality(FwdMarked(m_lsq_q, addr)) = 2

\* The length of the maximal prefix of ready entries.
ReadyPrefix(rob) ==
    Cardinality({i \in DOMAIN rob : \A j \in 1..i : rob[j].ready})

\* What ROB::step is to do: drop min(IPC, ReadyPrefix) entries from the head.
RetiresReadyPrefix(rob, after) ==
    LET k == IF ReadyPrefix(rob) < IPC THEN ReadyPrefix(rob) ELSE IPC
    IN  after = SubSeq(rob, k + 1, Len(rob))

\* C24: whatever the ROB holds and whatever its cycle number is, step()
\* removes from the head exactly min(IPC, length of the maximal prefix of
\* ready entries) entries, and nothing else.
C24_StepRetiresReadyPrefix ==
    RetiresReadyPrefix(
        m_rob_q, ROBstep(m_rob_q, m_lsq_q, m_rob_num, m_rob_cycle).rob)

\* C25: ROB::allocate(req) with room appends one entry for req at the tail,
\* ready exactly when req is a COMPUTE, counts it and returns true; with the
\* ROB full it returns false and leaves contents and size as they are.
C25_AllocateAppendsOrRefuses ==
    \A type \in {"COMPUTE", "READ", "WRITE"}, addr \in Addrs :
        LET req == [msgId |-> m_cpuReqCnt, type |-> type, addr |-> addr]
            a == ROBallocate(m_rob_q, m_rob_num, req)
        IN  IF Len(m_rob_q) < ROB_MAX_ENTRIES
            THEN /\ a.ok
                 /\ Len(a.rob) = Len(m_rob_q) + 1
                 /\ SubSeq(a.rob, 1, Len(m_rob_q)) = m_rob_q
                 /\ a.rob[Len(a.rob)] =
                        [msgId |-> req.msgId, type |-> type, addr |-> addr,
                         ready |-> (type = "COMPUTE")]
                 /\ a.num = Len(a.rob)
            ELSE /\ ~a.ok
                 /\ a.rob = m_rob_q
                 /\ a.num = m_rob_num

\* The ROB was filled with entries of which some are ready and some are not,
\* and one more allocate was refused.
C25_Witness ==
    /\ m_rob_cycle = 0
    /\ Len(m_rob_q) = ROB_MAX_ENTRIES
    /\ m_cpuReqCnt = ROB_MAX_ENTRIES + 1
    /\ \E i, j \in DOMAIN m_rob_q :
          /\ m_rob_q[i].type = "COMPUTE" /\ m_rob_q[i].ready
          /\ m_rob_q[j].type = "WRITE" /\ ~m_rob_q[j].ready

\* C26: a co-allocated store is ready in the LSQ and in the ROB from its
\* allocation on, and the call of ROB::step that finds it at the head of the
\* ROB retires it, whether or not the cache has answered.
C26_StoreReadyAtAllocation ==
    [][/\ allocLog'.type = "WRITE" => allocLog'.ready /\ allocLog'.robReady
       /\ \A i \in DOMAIN m_rob_q : m_rob_q[i].type = "WRITE" => m_rob_q[i].ready
       /\ \A i \in DOMAIN m_lsq_q : m_lsq_q[i].type = "WRITE" => m_lsq_q[i].ready
       /\ (/\ pc = "rob" /\ pc' = "lsq_push"
           /\ m_rob_q # <<>> /\ m_rob_q[1].type = "WRITE")
              => /\ m_rob_q[1].msgId \notin Ids(m_rob_q')
                 /\ retired' # retired
                 /\ retired'[Len(retired) + 1] = m_rob_q[1].msgId]_vars

\* ROB::step has just retired a store that was at the head; the cache has
\* not answered it, it has not even been sent.
C26_Witness ==
    /\ pc = "lsq_push"
    /\ \E i \in DOMAIN m_lsq_q :
          /\ m_lsq_q[i].type = "WRITE"
          /\ m_lsq_q[i].msgId \notin Ids(m_rob_q)
          /\ retired # <<>>
          /\ retired[Len(retired)] = m_lsq_q[i].msgId
          /\ m_lsq_q[i].msgId \notin rxConsumed
          /\ ~m_lsq_q[i].waitingForCache

\* The insertions into the TX FIFO made by the step.
Inserted == {txLog'[k] : k \in (Len(txLog) + 1)..Len(txLog')}

\* C27: a load inserted into the TX FIFO is not ready in the LSQ when it is
\* inserted, and a load that is ready without having been sent (it was
\* forwarded) is not among the requests ever inserted.
C27_ReadyLoadNeverSent ==
    [][/\ \A x \in Inserted :
              x.type = "READ" =>
                  \E i \in DOMAIN m_lsq_q :
                      /\ m_lsq_q[i].msgId = x.msgId
                      /\ ~m_lsq_q[i].ready
       /\ \A i \in DOMAIN m_lsq_q' :
              (/\ m_lsq_q'[i].type = "READ" /\ m_lsq_q'[i].ready
               /\ ~m_lsq_q'[i].waitingForCache)
                  => \A k \in DOMAIN txLog' :
                         txLog'[k].msgId # m_lsq_q'[i].msgId]_vars

\* pushToCache has just run with room in the TX FIFO and a forwarded load in
\* the LSQ, and has not sent it.
C27_Witness ==
    /\ pc = "lsq_retire"
    /\ m_txFIFO = <<>>
    /\ \E i \in DOMAIN m_lsq_q :
          /\ m_lsq_q[i].type = "READ"
          /\ m_lsq_q[i].ready
          /\ ~m_lsq_q[i].waitingForCache


\* C28: in every cycle the core inserts at most one request into the TX
\* FIFO: the requests inserted since the cycle began (StepROB) number at
\* most one.
C28_OneInsertionPerCycle == Len(txLog) - txCycleStart <= 1

\* The part of C28 about responses: the LSQ's own calls (LSQ::step and
\* Step's rxFromCache) pop at most one response per cycle; only the stage
\* "rx" pops for the LSQ, and it pops one.
C28_LsqPopsAtMostOne ==
    [][(pc \in {"lsq_push", "lsq_retire", "rx", "push"})
         => ((Len(m_rxFIFO') >= Len(m_rxFIFO) - 1)
             /\ (pc # "rx" => m_rxFIFO' = m_rxFIFO))]_vars


\* LSQ::rxFromCache runs on a non-empty RX FIFO.
RxCall == pc = "rx" /\ m_rxFIFO # <<>>

\* What rxFromCache leaves of the response at the front: one response is
\* popped; the LSQ entry with its msgId, if any, is ready with a ready ROB
\* entry if it is a load, and acknowledged if it is a store.
RxEffect ==
    /\ m_rxFIFO' = Tail(m_rxFIFO)
    /\ \A i \in DOMAIN m_lsq_q :
          m_lsq_q[i].msgId = Head(m_rxFIFO) =>
            /\ i \in DOMAIN m_lsq_q'
            /\ m_lsq_q'[i].msgId = m_lsq_q[i].msgId
            /\ m_lsq_q[i].type = "READ" =>
                  /\ m_lsq_q'[i].ready
                  /\ \A j \in DOMAIN m_rob_q' :
                        m_rob_q'[j].msgId = Head(m_rxFIFO) => m_rob_q'[j].ready
            /\ m_lsq_q[i].type = "WRITE" => m_lsq_q'[i].cache_ack

\* The matching entry no longer waits for the cache.
RxClearsWaiting ==
    \A i \in DOMAIN m_lsq_q :
       (m_lsq_q[i].msgId = Head(m_rxFIFO) /\ i \in DOMAIN m_lsq_q')
          => ~m_lsq_q'[i].waitingForCache

\* C29: rxFromCache on a non-empty RX FIFO pops exactly one response, and
\* the LSQ entry with the response's msgId, if there is one, afterwards
\* does not wait for the cache, is ready with its ROB entry ready when it
\* is a load, and has cache_ack when it is a store.
C29_RxPostcondition == [][RxCall => (RxEffect /\ RxClearsWaiting)]_vars

\* C29 without the waiting flag.
C29_RxPostconditionButWaiting == [][RxCall => RxEffect]_vars

\* Whenever rxFromCache finds the entry of its response, the entry still
\* waits for the cache afterwards.
C29_WaitingNeverCleared ==
    [][RxCall =>
         \A i \in DOMAIN m_lsq_q :
            m_lsq_q[i].msgId = Head(m_rxFIFO) =>
               m_lsq_q'[i].waitingForCache]_vars


MemKinds == {"READ", "WRITE"}

\* C30: every request ever inserted into the TX FIFO is a READ or a WRITE,
\* and so is every request in the TX FIFO and every entry of the LSQ: no
\* COMPUTE instruction is inserted into the TX FIFO or allocated into the
\* LSQ.
C30_NoComputeCrosses ==
    /\ \A i \in DOMAIN txLog : txLog[i].type \in MemKinds
    /\ \A i \in DOMAIN m_txFIFO : m_txFIFO[i].type \in MemKinds
    /\ \A i \in DOMAIN m_lsq_q : m_lsq_q[i].type \in MemKinds
    /\ allocLog # NoReq => allocLog.type \in MemKinds

\* A compute instruction is in the ROB behind a load that was sent to the
\* cache and is still in the LSQ.
C30_Witness ==
    /\ \E i \in DOMAIN m_rob_q : m_rob_q[i].type = "COMPUTE"
    /\ \E i \in DOMAIN m_lsq_q :
          \E j \in DOMAIN txLog : txLog[j].msgId = m_lsq_q[i].msgId


\* The place of each call in the order the cycle is specified to follow.
OpRank(op) ==
    CASE op = "ROB::step" -> 1
      [] op = "LSQ::pushToCache" -> 2
      [] op = "LSQ::rxFromCache" -> 3
      [] op = "LSQ::retire" -> 4
      [] op = "ProcessTxBuf" -> 5
      [] op = "ProcessRxBuf" -> 6

\* `a` is called before `b` in the current cycle.
CalledBefore(a, b) ==
    \E i, j \in DOMAIN cycleOps : i < j /\ cycleOps[i] = a /\ cycleOps[j] = b

\* C31: the calls of one cycle are made in the order ROB step, LSQ
\* pushToCache, LSQ rxFromCache, LSQ retire, TX stage, RX stage, none of
\* them twice: rxFromCache is not called after LSQ::retire and pushToCache is
\* not called after rxFromCache.
C31_IntraCycleOrder ==
    \A i, j \in DOMAIN cycleOps :
       i < j => OpRank(cycleOps[i]) < OpRank(cycleOps[j])

\* The parts of C31: the order of the four stages of Step,
C31_StagesInOrder ==
    /\ ~CalledBefore("LSQ::pushToCache", "ROB::step")
    /\ ~CalledBefore("LSQ::retire", "ROB::step")
    /\ ~CalledBefore("ProcessTxBuf", "ROB::step")
    /\ ~CalledBefore("ProcessTxBuf", "LSQ::retire")
    /\ ~CalledBefore("ProcessRxBuf", "ProcessTxBuf")
    /\ \A op \in {"ROB::step", "LSQ::retire", "ProcessTxBuf", "ProcessRxBuf"} :
          ~CalledBefore(op, op)

\* rxFromCache before LSQ::retire,
C31_RxBeforeLsqRetire == ~CalledBefore("LSQ::retire", "LSQ::rxFromCache")

\* and no pushToCache after rxFromCache.
C31_NoPushAfterRx == ~CalledBefore("LSQ::rxFromCache", "LSQ::pushToCache")


\* This step reads a line that is malformed or whose type is neither R nor
\* W: a line is consumed and no memory operation is read from it.
BadLineRead ==
    pc = "tx_read" /\ linesRead' = linesRead + 1 /\ memOwed' = memOwed

\* C32: a trace line that is malformed or whose type is not R or W is
\* skipped as a whole: reading it dispatches nothing, schedules no compute
\* instruction and no memory operation, leaves ROB, LSQ and the in-flight
\* counter unchanged and does not end the trace.
C32_BadLineSkipped ==
    [][BadLineRead =>
         /\ UNCHANGED <<m_rob_q, m_lsq_q, m_sent_requests, dispatched,
                        m_remaining_compute, m_newSampleRdy>>
         /\ ~m_cpuReqDone']_vars

\* C32 for the lines with no compute count.
C32_BadLineSkippedNoCount ==
    [][(BadLineRead /\ m_remaining_compute' = 0) =>
         /\ UNCHANGED <<m_rob_q, m_lsq_q, m_sent_requests, dispatched,
                        m_newSampleRdy>>
         /\ ~m_cpuReqDone']_vars

\* The only line read so far was such a line, and an instruction was
\* dispatched into the ROB.
C32_DispatchFromBadLine ==
    linesRead = 1 /\ ~traceOk /\ dispatched # <<>>


\* No LSQ entry that did not wait for the cache does so after the step.
NoNewWaiting ==
    \A i \in DOMAIN m_lsq_q : \A j \in DOMAIN m_lsq_q' :
       (m_lsq_q'[j].msgId = m_lsq_q[i].msgId /\ ~m_lsq_q[i].waitingForCache)
          => ~m_lsq_q'[j].waitingForCache

\* C33: the TX FIFO never holds more requests than its depth, and while it
\* is full nothing is inserted into it and no LSQ entry starts to wait for
\* the cache.
C33_FullTxBlocksPush ==
    /\ [](Len(m_txFIFO) <= m_fifoDepth)
    /\ [][IsFull(m_txFIFO) => (txLog' = txLog /\ NoNewWaiting)]_vars

\* LSQ::step is about to call pushToCache with an entry to send, and the TX
\* FIFO is full.
C33_Witness ==
    /\ pc = "lsq_push"
    /\ IsFull(m_txFIFO)
    /\ PushPick(m_lsq_q) # 0


\* The loads whose ROB entry is ready after this step and was not before.
LoadsMadeReady ==
    {j \in DOMAIN m_rob_q' :
        /\ m_rob_q'[j].type = "READ"
        /\ m_rob_q'[j].ready
        /\ \A k \in DOMAIN m_rob_q :
               m_rob_q[k].msgId = m_rob_q'[j].msgId => ~m_rob_q[k].ready}

\* A call of ldFwd in this step found the LSQ holding a store to the
\* load's address in front of the load (the load itself is in the LSQ or is
\* about to be allocated).
OlderStoreForwarded(e) ==
    \E c \in fwdCalls' :
       /\ c.addr = e.addr
       /\ \E st \in DOMAIN c.pre :
             /\ c.pre[st].type = "WRITE"
             /\ c.pre[st].addr = e.addr
             /\ \A i \in DOMAIN c.pre : c.pre[i].msgId = e.msgId => st < i

\* C34: the ROB entry of a load becomes ready only when the response with
\* the load's msgId has been consumed or when the LSQ holds a store to the
\* load's address that is older than the load.
C34_NoLoadWithoutData ==
    [][\A j \in LoadsMadeReady :
          \/ m_rob_q'[j].msgId \in rxConsumed'
          \/ OlderStoreForwarded(m_rob_q'[j])]_vars

\* C34 for each way but the forwarding to loads in front of the store: a
\* load made ready has its response consumed or was marked by a call of
\* ldFwd for its address that found a store to it.
C34_ReadyByResponseOrFwd ==
    [][\A j \in LoadsMadeReady :
          \/ m_rob_q'[j].msgId \in rxConsumed'
          \/ \E c \in fwdCalls' :
                /\ c.addr = m_rob_q'[j].addr
                /\ \E st \in DOMAIN c.pre :
                      c.pre[st].type = "WRITE" /\ c.pre[st].addr = c.addr]_vars


\* C35: each msgId is inserted into the TX FIFO at most once in the whole
\* run, whichever call of pushToCache inserts it and whether or not its
\* response has arrived.
C35_SentAtMostOnce ==
    \A i, j \in DOMAIN txLog : txLog[i].msgId = txLog[j].msgId => i = j

\* The response to a store was consumed while the store is still in the
\* LSQ, and pushToCache is about to be called again.
C35_Witness ==
    /\ pc = "push"
    /\ ~IsFull(m_txFIFO)
    /\ \E i \in DOMAIN m_lsq_q :
          /\ m_lsq_q[i].type = "WRITE"
          /\ m_lsq_q[i].msgId \in rxConsumed
          /\ \E j \in DOMAIN txLog : txLog[j].msgId = m_lsq_q[i].msgId


\* The memory operations co-allocated and the responses popped from the RX
\* FIFO by one step of the core.
AllocatedNow == IF pc = "tx_mem" /\ allocLog' # NoReq THEN 1 ELSE 0
PoppedNow == Len(m_rxFIFO) - Len(m_rxFIFO')

\* C36: the in-flight counter is the number of memory operations
\* co-allocated minus the number of responses popped from the RX FIFO by the
\* LSQ or by the driver: every step of the core changes it by the
\* allocations it makes minus the responses it pops.
C36_InFlightConservation ==
    [][pc # "rob" =>
         m_sent_requests' - m_sent_requests = AllocatedNow - PoppedNow]_vars

\* The parts of C36: a co-allocation counts one up,
C36_AllocationCounts ==
    [][AllocatedNow = 1 => m_sent_requests' = m_sent_requests + 1]_vars

\* a response popped by ProcessRxBuf counts one down,
C36_DriverPopCounts ==
    [][(pc = "rxbuf" /\ PoppedNow = 1)
         => m_sent_requests' = m_sent_requests - 1]_vars

\* a response popped by the LSQ counts one down,
C36_LsqPopCounts ==
    [][(pc = "rx" /\ PoppedNow = 1)
         => m_sent_requests' = m_sent_requests - 1]_vars

\* and nothing else changes the counter.
C36_NothingElseCounts ==
    [][(pc # "rob" /\ AllocatedNow = 0 /\ PoppedNow = 0)
         => m_sent_requests' = m_sent_requests]_vars

\* The LSQ never changes the counter when it pops a response.
C36_LsqPopNeverCounts ==
    [][pc = "rx" => m_sent_requests' = m_sent_requests]_vars


\* C37: the in-flight counter stays between 0 and the number of
\* out-of-order requests allowed: it is incremented by one, only from below
\* that number, and it is decremented by one, only from above 0.
C37_InFlightBounded ==
    /\ [](m_sent_requests \in 0..NumOoO)
    /\ [][((m_sent_requests' > m_sent_requests) =>
              (m_sent_requests < NumOoO
               /\ m_sent_requests' = m_sent_requests + 1))
          /\ ((m_sent_requests' < m_sent_requests) =>
                (m_sent_requests > 0
                 /\ m_sent_requests' = m_sent_requests - 1))]_vars

\* The counter is at its limit with a compute instruction left to dispatch
\* and room in the ROB: only the budget holds the dispatch back.
C37_Witness ==
    /\ m_sent_requests = NumOoO
    /\ pc = "tx_compute"
    /\ m_remaining_compute > 0
    /\ ROBcanAccept(m_rob_num)

\* C38: with a fair cycle and a cache that answers every request once,
\* every instruction allocated into the ROB is eventually retired from it
\* and every entry allocated into the LSQ is eventually removed from it:
\* the trace is finite and no msgId is allocated twice, so both queues end
\* up empty for good, none of their entries stuck.
C38_Progress == <>[](m_rob_q = <<>> /\ m_lsq_q = <<>>)

\* The ROB is full behind a load at its head that waits for its response.
C38_Witness ==
    /\ Len(m_rob_q) = ROB_MAX_ENTRIES
    /\ m_rob_q[1].type = "READ"
    /\ ~m_rob_q[1].ready
    /\ \E i \in DOMAIN m_lsq_q :
          m_lsq_q[i].msgId = m_rob_q[1].msgId /\ m_lsq_q[i].waitingForCache


\* C39: at most one LSQ entry waits for the cache, and it is the entry at
\* the head of the LSQ.
C39_OneWaitingAtHead ==
    \A i \in DOMAIN m_lsq_q : m_lsq_q[i].waitingForCache => i = 1

\* The second half of C39: no request is inserted while an entry of the LSQ
\* sent earlier has had no response.
C39_NoSendWhileUnanswered ==
    [][txLog' # txLog =>
         \A i \in DOMAIN m_lsq_q :
            m_lsq_q[i].waitingForCache => m_lsq_q[i].msgId \in rxConsumed]_vars


\* This step of ProcessTxBuf attempts the co-allocation of the pending
\* memory operation: it tries forwarding, allocates, or rolls back.
CoAllocationAttempt ==
    pc = "tx_mem" /\ (fwdCalls' # {} \/ allocLog' # NoReq \/ rolledBack')

\* C40: the co-allocation of a memory operation is attempted only when both
\* rob.canAccept() and lsq.canAccept() hold; every attempt allocates in both
\* queues, and rob.removeLastEntry never runs.
C40_NoRollback ==
    /\ [](~rolledBack)
    /\ [][CoAllocationAttempt =>
             /\ ROBcanAccept(m_rob_num) /\ LSQcanAccept(m_lsq_num)
             /\ allocLog' # NoReq
             /\ Len(m_rob_q') = Len(m_rob_q) + 1
             /\ Len(m_lsq_q') = Len(m_lsq_q) + 1]_vars

\* The co-allocation stage is reached with a memory operation pending, the
\* budget not used up and room in the ROB, and the LSQ is full: the state
\* in which an unguarded attempt would have to roll back.
C40_Witness ==
    /\ pc = "tx_mem"
    /\ m_newSampleRdy
    /\ m_sent_requests < NumOoO
    /\ Len(m_lsq_q) = LSQ_MAX_ENTRIES
    /\ ROBcanAccept(m_rob_num)

====
